---------------------------- MODULE Spec2Model ----------------------------
(***************************************************************************)
(* A model of scripts/prepare_network.py (PyPSA-Eur): the transforms that  *)
(* prepare a network for the solver, and the __main__ block that applies   *)
(* them in order.                                                          *)
(*                                                                         *)
(* Numbers.  Python floats are modelled exactly:                           *)
(*   - a rational is a pair <<num, den>> in lowest terms with den > 0;     *)
(*     <<0, 0>> is NaN and <<1, 0>> is +inf;                               *)
(*   - a capacity is a pair <<r, s>> of rationals standing for             *)
(*     r + s * sqrt(3), because set_transmission_limit multiplies by       *)
(*     np.sqrt(3).                                                         *)
(* Time labels are whole hours counted from midnight of the day of the     *)
(* network's first snapshot.  Strings are TLA+ strings; where the code     *)
(* looks inside a string (regular expressions, split, startswith, float)   *)
(* the model works on the string's sequence of characters, CharsOf[s].     *)
(***************************************************************************)
EXTENDS Integers, Sequences, FiniteSets, TLC

VARIABLES
    pc,     \* position of the run: the next step of __main__, or "call"/"done"
    n,      \* the network (pypsa.Network) the run holds
    pre,    \* the network as it was before the last call
    inp,    \* the inputs: function arguments, or the snakemake wildcards/params
    loc     \* the run's record: the calls that returned, the error raised, locals of __main__

vars == <<pc, n, pre, inp, loc>>

-----------------------------------------------------------------------------
(* Bounds of the model *)

MaxCap == 2
MaxCost == 2
MaxLines == 2
MaxLinks == 2
MaxSnap == 4
MaxHour == 5
MaxBucket == 3
MaxWeight == 2
MaxPrice == 2
MaxIntensity == 2
MaxSeries == 3
MaxStep == 2
MaxSeg == 3
MaxOpts == 2

-----------------------------------------------------------------------------
(* Exact arithmetic *)

Abs(i) == IF i < 0 THEN -i ELSE i

RECURSIVE GCD(_, _)
GCD(a, b) == IF b = 0 THEN a ELSE GCD(b, a % b)

NaN == <<0, 0>>
Inf == <<1, 0>>

\* the rational num/den in lowest terms
Rat(num, den) ==
    IF den = 0 THEN (IF num > 0 THEN Inf ELSE NaN)
    ELSE LET g == GCD(Abs(num), Abs(den))
             s == IF den < 0 THEN -1 ELSE 1
         IN  <<s * (num \div g), s * (den \div g)>>

R(i) == <<i, 1>>

IsNaN(a) == a = NaN
IsFinite(a) == a[2] # 0

RAdd(a, b) ==
    IF IsNaN(a) \/ IsNaN(b) THEN NaN
    ELSE IF a = Inf \/ b = Inf THEN Inf
    ELSE Rat(a[1] * b[2] + b[1] * a[2], a[2] * b[2])

RMul(a, b) ==
    IF IsNaN(a) \/ IsNaN(b) THEN NaN
    ELSE IF a = Inf \/ b = Inf
         THEN (IF a[1] > 0 /\ b[1] > 0 THEN Inf ELSE NaN)
    ELSE Rat(a[1] * b[1], a[2] * b[2])

\* a / b; the model only divides by finite non-negative numbers
RDiv(a, b) ==
    IF IsNaN(a) \/ IsNaN(b) THEN NaN
    ELSE IF a = Inf THEN Inf
    ELSE Rat(a[1] * b[2], a[2] * b[1])

RLess(a, b) == a[1] * b[2] < b[1] * a[2]

RMin(a, b) ==
    IF a = Inf THEN b ELSE IF b = Inf THEN a ELSE IF RLess(b, a) THEN b ELSE a

\* r + s*sqrt(3)
SZero == <<R(0), R(0)>>
SAdd(c, d) == <<RAdd(c[1], d[1]), RAdd(c[2], d[2])>>
SScale(c, q) == <<RMul(c[1], q), RMul(c[2], q)>>

RECURSIVE SSum(_, _)
\* sum of f[k] over k in S
SSum(f, S) ==
    IF S = {} THEN SZero
    ELSE LET k == CHOOSE k \in S : TRUE IN SAdd(f[k], SSum(f, S \ {k}))

-----------------------------------------------------------------------------
(* Strings as character sequences *)

CharsOf ==
    ("opt" :> <<"o", "p", "t">>) @@
    ("0.5" :> <<"0", ".", "5">>) @@
    ("1.0" :> <<"1", ".", "0">>) @@
    ("1.5" :> <<"1", ".", "5">>) @@
    ("2.0" :> <<"2", ".", "0">>) @@
    ("1h" :> <<"1", "h">>) @@ ("2h" :> <<"2", "h">>) @@ ("3h" :> <<"3", "h">>) @@
    ("4h" :> <<"4", "h">>) @@ ("5h" :> <<"5", "h">>) @@ ("6h" :> <<"6", "h">>) @@
    ("1" :> <<"1">>) @@ ("2" :> <<"2">>) @@ ("3" :> <<"3">>) @@ ("4" :> <<"4">>) @@
    ("5" :> <<"5">>) @@ ("2seg" :> <<"2", "s", "e", "g">>) @@
    ("3seg" :> <<"3", "s", "e", "g">>) @@
    ("Co2L0.5" :> <<"C", "o", "2", "L", "0", ".", "5">>) @@
    ("Co2L" :> <<"C", "o", "2", "L">>) @@
    ("CH4L" :> <<"C", "H", "4", "L">>) @@
    ("Ep" :> <<"E", "p">>) @@ ("Ep5" :> <<"E", "p", "5">>) @@
    ("Ept" :> <<"E", "p", "t">>) @@
    ("ATK" :> <<"A", "T", "K">>) @@ ("ATKc" :> <<"A", "T", "K", "c">>) @@
    ("solar+p3" :> <<"s", "o", "l", "a", "r", "+", "p", "3">>) @@
    ("AC+c2" :> <<"A", "C", "+", "c", "2">>) @@
    ("OCGT+x2" :> <<"O", "C", "G", "T", "+", "x", "2">>) @@
    ("offwind+m2" :> <<"o", "f", "f", "w", "i", "n", "d", "+", "m", "2">>) @@
    ("wind+x3" :> <<"w", "i", "n", "d", "+", "x", "3">>) @@
    ("OCGT" :> <<"O", "C", "G", "T">>) @@ ("solar" :> <<"s", "o", "l", "a", "r">>) @@
    ("offwind-ac" :> <<"o", "f", "f", "w", "i", "n", "d", "-", "a", "c">>) @@
    ("AC" :> <<"A", "C">>) @@ ("DC" :> <<"D", "C">>) @@ ("PHS" :> <<"P", "H", "S">>) @@
    ("battery charger" :>
        <<"b", "a", "t", "t", "e", "r", "y", " ", "c", "h", "a", "r", "g", "e", "r">>) @@
    ("copt" :> <<"c", "o", "p", "t">>) @@ ("v1.5" :> <<"v", "1", ".", "5">>) @@
    ("c1.0" :> <<"c", "1", ".", "0">>) @@
    ("h" :> <<"h">>) @@ ("seg" :> <<"s", "e", "g">>)

DigitVal ==
    ("0" :> 0) @@ ("1" :> 1) @@ ("2" :> 2) @@ ("3" :> 3) @@ ("4" :> 4) @@
    ("5" :> 5) @@ ("6" :> 6) @@ ("7" :> 7) @@ ("8" :> 8) @@ ("9" :> 9)

IsDigit(c) == c \in DOMAIN DigitVal
AllDigits(cs) == \A i \in 1..Len(cs) : IsDigit(cs[i])

RECURSIVE Pow10(_)
Pow10(k) == IF k = 0 THEN 1 ELSE 10 * Pow10(k - 1)

RECURSIVE DigitsVal(_)
DigitsVal(cs) ==
    IF cs = <<>> THEN 0
    ELSE 10 * DigitsVal(SubSeq(cs, 1, Len(cs) - 1)) + DigitVal[cs[Len(cs)]]

\* position of the first "." in cs, 0 if there is none
DotPos(cs) ==
    IF \E i \in 1..Len(cs) : cs[i] = "."
    THEN CHOOSE i \in 1..Len(cs) : cs[i] = "." /\ \A j \in 1..(i - 1) : cs[j] # "."
    ELSE 0

\* whether Python's float() accepts the unsigned decimal cs
IsFloat(cs) ==
    LET d == DotPos(cs) IN
    IF d = 0 THEN cs # <<>> /\ AllDigits(cs)
    ELSE /\ AllDigits(SubSeq(cs, 1, d - 1))
         /\ AllDigits(SubSeq(cs, d + 1, Len(cs)))
         /\ Len(cs) > 1

\* float(cs) for a cs that float() accepts
ToFloat(cs) ==
    LET d == DotPos(cs) IN
    IF d = 0 THEN R(DigitsVal(cs))
    ELSE LET ip == SubSeq(cs, 1, d - 1)
             fp == SubSeq(cs, d + 1, Len(cs))
         IN  Rat(DigitsVal(ip) * Pow10(Len(fp)) + DigitsVal(fp), Pow10(Len(fp)))

\* the string with the given characters
StringOf(cs) == CHOOSE str \in DOMAIN CharsOf : CharsOf[str] = cs

\* sub in cs
Contains(sub, cs) ==
    \E i \in 1..(Len(cs) - Len(sub) + 1) : SubSeq(cs, i, i + Len(sub) - 1) = sub

\* cs.startswith(prefix)
StartsWith(cs, prefix) ==
    Len(prefix) <= Len(cs) /\ SubSeq(cs, 1, Len(prefix)) = prefix

\* position of the first c in cs, Len(cs) + 1 if there is none
FirstPos(c, cs) ==
    IF \E i \in 1..Len(cs) : cs[i] = c
    THEN CHOOSE i \in 1..Len(cs) : cs[i] = c /\ \A j \in 1..(i - 1) : cs[j] # c
    ELSE Len(cs) + 1

\* cs.split(c)[0] and cs.split(c)[1] (the latter for a cs that holds c)
SplitHead(cs, c) == SubSeq(cs, 1, FirstPos(c, cs) - 1)
SplitSecond(cs, c) ==
    LET rest == SubSeq(cs, FirstPos(c, cs) + 1, Len(cs))
    IN  SubSeq(rest, 1, FirstPos(c, rest) - 1)

\* re.match of ^\d+<suffix>$
MatchesDigitsThen(cs, suffix) ==
    /\ Len(cs) > Len(suffix)
    /\ SubSeq(cs, Len(cs) - Len(suffix) + 1, Len(cs)) = suffix
    /\ AllDigits(SubSeq(cs, 1, Len(cs) - Len(suffix)))

\* whether all of cs matches [0-9]*\.?[0-9]+
IsTrailingNumber(cs) ==
    \/ cs # <<>> /\ AllDigits(cs)
    \/ /\ DotPos(cs) > 0
       /\ AllDigits(SubSeq(cs, 1, DotPos(cs) - 1))
       /\ DotPos(cs) < Len(cs)
       /\ AllDigits(SubSeq(cs, DotPos(cs) + 1, Len(cs)))

\* re.findall("[0-9]*\.?[0-9]+$", o): the start of the first match, 0 if none
TrailingNumberStart(cs) ==
    LET starts == {i \in 1..Len(cs) : IsTrailingNumber(SubSeq(cs, i, Len(cs)))}
    IN  IF starts = {} THEN 0 ELSE CHOOSE i \in starts : \A j \in starts : i <= j

-----------------------------------------------------------------------------
(* The network *)

\* an exception: its type and what it names
Raised(type, arg) == [type |-> type, arg |-> arg]
NoError == Raised("", "")

\* n.line_types.i_nom
line_types == ("T" :> [i_nom |-> 2])

Bus(country, v_nom) == [country |-> country, v_nom |-> v_nom]

Line(bus0, bus1, type, s_nom, num_parallel, length, capital_cost) ==
    [bus0 |-> bus0, bus1 |-> bus1, type |-> type, s_nom |-> s_nom,
     num_parallel |-> num_parallel, length |-> length,
     capital_cost |-> R(capital_cost),
     s_nom_min |-> SZero, s_nom_extendable |-> FALSE, s_nom_max |-> Inf,
     s_max_pu |-> R(1)]

Link(bus0, bus1, carrier, p_nom, length, capital_cost) ==
    [bus0 |-> bus0, bus1 |-> bus1, carrier |-> carrier, p_nom |-> p_nom,
     length |-> length, capital_cost |-> R(capital_cost),
     marginal_cost |-> R(0),
     p_nom_min |-> 0, p_nom_extendable |-> FALSE, p_nom_max |-> Inf]

EmptyTable == [k \in {} |-> 0]

\* the time-varying tables the model holds: <<list_name, attribute>>; a table
\* maps each of its columns to the sequence of its values, one per snapshot
PnlKeys ==
    {<<"generators", "marginal_cost">>, <<"generators", "p_max_pu">>,
     <<"loads", "p_set">>, <<"storage_units", "inflow">>,
     <<"links", "p_max_pu">>}

BaseBuses ==
    ("DE1" :> Bus("DE", 380)) @@ ("DE2" :> Bus("DE", 220)) @@
    ("PL1" :> Bus("PL", 380))

BaseNet ==
    [snapshots |-> <<0, 1, 2, 3>>,
     snapshot_weightings |-> [i \in 1..4 |-> [objective |-> 1, stores |-> 1]],
     buses |-> BaseBuses,
     lines |-> EmptyTable,
     links |-> EmptyTable,
     generators |-> EmptyTable,
     storage_units |-> EmptyTable,
     stores |-> EmptyTable,
     carriers |-> EmptyTable,
     pnl |-> [key \in PnlKeys |-> EmptyTable],
     global_constraints |-> {}]

-----------------------------------------------------------------------------
(* set_transmission_limit *)

\* the cost table entries update_transmission_costs reads
BaseCosts == [hvac |-> R(3), hvdc |-> R(5)]

links_dc_b(net) == {k \in DOMAIN net.links : net.links[k].carrier = "DC"}

lines_s_nom(net) ==
    [k \in DOMAIN net.lines |->
        LET l == net.lines[k] IN
        IF l.type = "" THEN <<R(l.s_nom), R(0)>>
        ELSE <<R(0), R(line_types[l.type].i_nom * l.num_parallel
                       * net.buses[l.bus0].v_nom)>>]

ColOf(row, col) == IF col = "capital_cost" THEN row.capital_cost ELSE R(row.length)

TransmissionCol(ll_type) == IF ll_type = "c" THEN "capital_cost" ELSE "length"

TransmissionRef(net, ll_type) ==
    LET col == TransmissionCol(ll_type)
        cap == lines_s_nom(net)
        lterm == [k \in DOMAIN net.lines |-> SScale(cap[k], ColOf(net.lines[k], col))]
        kterm == [k \in DOMAIN net.links |->
                    SScale(<<R(net.links[k].p_nom), R(0)>>, ColOf(net.links[k], col))]
    IN  SAdd(SSum(lterm, DOMAIN net.lines), SSum(kterm, links_dc_b(net)))

update_transmission_costs(net, costs) ==
    [net EXCEPT
       !.lines = [k \in DOMAIN net.lines |->
                    [net.lines[k] EXCEPT
                       !.capital_cost = RMul(R(net.lines[k].length), costs.hvac)]],
       !.links = [k \in DOMAIN net.links |->
                    IF k \in links_dc_b(net)
                    THEN [net.links[k] EXCEPT
                            !.capital_cost = RMul(R(net.links[k].length), costs.hvdc)]
                    ELSE net.links[k]]]

\* a variant that also grants the extension at factor 1.0
GrantsExtension_AtOne(factor) ==
    factor = "opt" \/ ~RLess(ToFloat(CharsOf[factor]), R(1))

GrantsExtension(factor) ==
    factor = "opt" \/ RLess(R(1), ToFloat(CharsOf[factor]))

AddsLimit(factor) == factor # "opt"

MakeExtendable(net, cap, dc) ==
    [net EXCEPT
       !.lines = [k \in DOMAIN net.lines |->
                    [net.lines[k] EXCEPT !.s_nom_min = cap[k],
                                         !.s_nom_extendable = TRUE]],
       !.links = [k \in DOMAIN net.links |->
                    IF k \in dc
                    THEN [net.links[k] EXCEPT !.p_nom_min = net.links[k].p_nom,
                                              !.p_nom_extendable = TRUE]
                    ELSE net.links[k]]]

LimitConstraint(ll_type, factor, ref) ==
    [name |-> IF ll_type = "c" THEN "lc_limit" ELSE "lv_limit",
     type |-> IF ll_type = "c" THEN "transmission_expansion_cost_limit"
              ELSE "transmission_volume_expansion_limit",
     sense |-> "<=",
     constant |-> SScale(ref, ToFloat(CharsOf[factor])),
     carrier_attribute |-> "AC, DC"]

\* a variant that computes the reference after the costs were refreshed
set_transmission_limit_RefAfterUpdate(net, ll_type, factor, costs) ==
    LET dc == links_dc_b(net)
        cap == lines_s_nom(net)
        n1 == update_transmission_costs(net, costs)
        ref == TransmissionRef(n1, ll_type)
        n2 == IF GrantsExtension(factor) THEN MakeExtendable(n1, cap, dc) ELSE n1
    IN  IF AddsLimit(factor)
        THEN [n2 EXCEPT !.global_constraints =
                           @ \cup {LimitConstraint(ll_type, factor, ref)}]
        ELSE n2

set_transmission_limit(net, ll_type, factor, costs) ==
    LET dc == links_dc_b(net)
        cap == lines_s_nom(net)
        ref == TransmissionRef(net, ll_type)
        n1 == update_transmission_costs(net, costs)
        n2 == IF GrantsExtension(factor) THEN MakeExtendable(n1, cap, dc) ELSE n1
    IN  IF AddsLimit(factor)
        THEN [n2 EXCEPT !.global_constraints =
                           @ \cup {LimitConstraint(ll_type, factor, ref)}]
        ELSE n2

\* the networks set_transmission_limit is called on
LineSets ==
    {("L1" :> Line("DE1", "DE2", t1, s1, 1, 1, c1)) @@
     ("L2" :> Line("DE2", "PL1", t2, s2, 2, 2, c2)) :
        t1 \in {"", "T"}, t2 \in {"", "T"}, s1 \in 1..MaxCap, s2 \in {1},
        c1 \in 1..MaxCost, c2 \in 1..MaxCost}

LinkSets ==
    {EmptyTable} \cup
    {("K1" :> Link("DE1", "PL1", k1, p1, 3, c1)) @@
     ("K2" :> Link("DE1", "DE2", k2, 2, 1, 1)) :
        k1 \in {"DC", "H2 pipeline"}, k2 \in {"DC", "battery charger"},
        p1 \in 1..MaxCap, c1 \in 1..MaxCost}

TLNets == {[BaseNet EXCEPT !.lines = ls, !.links = ks] : ls \in LineSets, ks \in LinkSets}

TLArgs == [ll_type : {"c", "v"}, factor : {"opt", "0.5", "1.0", "1.5", "2.0"},
           costs : {BaseCosts}]

InitTL ==
    /\ pc = "call"
    /\ n \in TLNets
    /\ pre = n
    /\ inp \in TLArgs
    /\ loc = [calls |-> <<>>, error |-> NoError]

CallSetTransmissionLimit ==
    /\ pc = "call"
    /\ n' = set_transmission_limit(n, inp.ll_type, inp.factor, inp.costs)
    /\ pc' = "done"
    /\ loc' = [loc EXCEPT !.calls = Append(@, "set_transmission_limit")]
    /\ UNCHANGED <<pre, inp>>

NextTL == CallSetTransmissionLimit

SpecTL == InitTL /\ [][NextTL]_vars


(* Claims about set_transmission_limit *)

\* the factor as a number, read off the wildcard's text
FactorValue ==
    ("0.5" :> <<1, 2>>) @@ ("1.0" :> <<1, 1>>) @@ ("1.5" :> <<3, 2>>) @@
    ("2.0" :> <<2, 1>>)

\* a line's capacity: s_nom, or sqrt(3) * i_nom * num_parallel * v_nom when typed
CapacityBefore(k) ==
    LET l == pre.lines[k] IN
    IF l.type = "" THEN <<R(l.s_nom), R(0)>>
    ELSE <<R(0), R(line_types[l.type].i_nom * l.num_parallel * pre.buses[l.bus0].v_nom)>>

ReferenceBefore(kind) ==
    LET lt == [k \in DOMAIN pre.lines |->
                 SScale(CapacityBefore(k),
                        IF kind = "c" THEN pre.lines[k].capital_cost
                        ELSE R(pre.lines[k].length))]
        dc == {k \in DOMAIN pre.links : pre.links[k].carrier = "DC"}
        kt == [k \in dc |->
                 SScale(<<R(pre.links[k].p_nom), R(0)>>,
                        IF kind = "c" THEN pre.links[k].capital_cost
                        ELSE R(pre.links[k].length))]
    IN  SAdd(SSum(lt, DOMAIN pre.lines), SSum(kt, dc))

AddedConstraints == n.global_constraints \ pre.global_constraints

\* C2: set_transmission_limit appends the expansion-limit constraint exactly
\* when factor is not "opt"; the constraint has sense "<=" and constant
\* factor x reference, the reference being the sum over lines of capacity x
\* capital cost (length for kind "v") plus the sum over DC links of p_nom x
\* capital cost (length), on the costs held before the call refreshes them.
C2_LimitConstraint ==
    pc = "done" =>
        /\ inp.factor = "opt" => AddedConstraints = {}
        /\ inp.factor # "opt" =>
              /\ Cardinality(AddedConstraints) = 1
              /\ \A c \in AddedConstraints :
                    /\ c.sense = "<="
                    /\ c.constant =
                         SScale(ReferenceBefore(inp.ll_type), FactorValue[inp.factor])

C2_Witness ==
    /\ pc = "done"
    /\ inp.factor = "1.5"
    /\ inp.ll_type = "c"
    /\ \E k \in DOMAIN pre.links : pre.links[k].carrier = "DC"
    /\ \E k \in DOMAIN pre.lines : n.lines[k].capital_cost # pre.lines[k].capital_cost
    /\ \E c \in n.global_constraints : c.constant # SZero

\* C3: with factor "opt" or a numeric factor above 1.0 every line and every
\* DC link ends capacity-extendable with minimum capacity equal to its
\* capacity before the call, and the other links are left as they were; with
\* a numeric factor of at most 1.0 no extendable flag and no minimum capacity
\* changes.
C3_Extendable ==
    pc = "done" =>
        IF inp.factor \in {"opt", "1.5", "2.0"}
        THEN /\ \A k \in DOMAIN n.lines :
                   /\ n.lines[k].s_nom_extendable
                   /\ n.lines[k].s_nom_min = CapacityBefore(k)
             /\ \A k \in DOMAIN n.links :
                   IF pre.links[k].carrier = "DC"
                   THEN /\ n.links[k].p_nom_extendable
                        /\ n.links[k].p_nom_min = pre.links[k].p_nom
                   ELSE n.links[k] = pre.links[k]
        ELSE /\ \A k \in DOMAIN n.lines :
                   /\ n.lines[k].s_nom_extendable = pre.lines[k].s_nom_extendable
                   /\ n.lines[k].s_nom_min = pre.lines[k].s_nom_min
             /\ \A k \in DOMAIN n.links :
                   /\ n.links[k].p_nom_extendable = pre.links[k].p_nom_extendable
                   /\ n.links[k].p_nom_min = pre.links[k].p_nom_min

C3_Witness ==
    /\ pc = "done"
    /\ inp.factor = "1.5"
    /\ \E k \in DOMAIN pre.lines : pre.lines[k].type # ""
    /\ \E k \in DOMAIN pre.lines : pre.lines[k].type = ""
    /\ \E k \in DOMAIN pre.links : pre.links[k].carrier = "DC"
    /\ \E k \in DOMAIN pre.links : pre.links[k].carrier # "DC"

-----------------------------------------------------------------------------
(* enforce_autarky *)

Restrict(f, S) == [k \in S |-> f[k]]

\* n.mremove(class, names): the rows and their time series
mremove(net, list_name, names) ==
    [net EXCEPT
       ![list_name] = Restrict(@, DOMAIN @ \ names),
       !.pnl = [key \in DOMAIN @ |->
                  IF key[1] = list_name
                  THEN Restrict(@[key], DOMAIN @[key] \ names)
                  ELSE @[key]]]

country_of(net, b) == net.buses[b].country

crossborder(net, table) ==
    {k \in DOMAIN table :
        country_of(net, table[k].bus0) # country_of(net, table[k].bus1)}

enforce_autarky(net, only_crossborder) ==
    LET lines_rm == IF only_crossborder THEN crossborder(net, net.lines)
                    ELSE DOMAIN net.lines
        links_rm == IF only_crossborder THEN crossborder(net, net.links)
                    ELSE {k \in DOMAIN net.links : net.links[k].carrier = "DC"}
    IN  mremove(mremove(net, "lines", lines_rm), "links", links_rm)

BusPairs == {<<"DE1", "DE2">>, <<"DE1", "PL1">>, <<"PL1", "DE2">>}

LineNames == [i \in 1..3 |-> <<"L1", "L2", "L3">>[i]]
LinkNames == [i \in 1..3 |-> <<"K1", "K2", "K3">>[i]]

AKLineSets ==
    UNION {{[k \in {LineNames[i] : i \in 1..c} |->
               Line(bp[k][1], bp[k][2], "", 1, 1, 1, 1)] :
              bp \in [{LineNames[i] : i \in 1..c} -> BusPairs]} : c \in 0..MaxLines}

AKLinkSets ==
    UNION {{[k \in {LinkNames[i] : i \in 1..c} |->
               Link(bc[k][1][1], bc[k][1][2], bc[k][2], 1, 1, 1)] :
              bc \in [{LinkNames[i] : i \in 1..c} ->
                        BusPairs \X {"DC", "H2 pipeline"}]} : c \in 0..MaxLinks}

\* links_t.p_max_pu holds a series for K1 when there is a K1
AKPnl(ks) ==
    [key \in PnlKeys |->
        IF key = <<"links", "p_max_pu">> /\ "K1" \in DOMAIN ks
        THEN ("K1" :> [i \in 1..4 |-> R(1)])
        ELSE EmptyTable]

Generator(carrier, efficiency, marginal_cost) ==
    [carrier |-> carrier, efficiency |-> efficiency, marginal_cost |-> marginal_cost,
     p_nom_max |-> Inf, capital_cost |-> R(1)]

AKNets ==
    {[BaseNet EXCEPT !.lines = ls, !.links = ks, !.pnl = AKPnl(ks),
                     !.generators = ("G1" :> Generator("OCGT", R(1), R(1)))] :
        ls \in AKLineSets, ks \in AKLinkSets}

InitAK ==
    /\ pc = "call"
    /\ n \in AKNets
    /\ pre = n
    /\ inp \in [only_crossborder : BOOLEAN]
    /\ loc = [calls |-> <<>>, error |-> NoError]

CallEnforceAutarky ==
    /\ pc = "call"
    /\ n' = enforce_autarky(n, inp.only_crossborder)
    /\ pc' = "done"
    /\ loc' = [loc EXCEPT !.calls = Append(@, "enforce_autarky")]
    /\ UNCHANGED <<pre, inp>>

NextAK == CallEnforceAutarky

SpecAK == InitAK /\ [][NextAK]_vars

(* Claims about enforce_autarky *)

DifferentCountries(row) == pre.buses[row.bus0].country # pre.buses[row.bus1].country

RemovedLines == DOMAIN pre.lines \ DOMAIN n.lines
RemovedLinks == DOMAIN pre.links \ DOMAIN n.links

OtherTablesKept ==
    /\ n.buses = pre.buses
    /\ n.generators = pre.generators
    /\ n.storage_units = pre.storage_units
    /\ n.stores = pre.stores
    /\ n.carriers = pre.carriers
    /\ \A k \in DOMAIN n.lines : n.lines[k] = pre.lines[k]
    /\ \A k \in DOMAIN n.links : n.links[k] = pre.links[k]

\* C4: with cross_border_only the call removes exactly the lines and the DC
\* links whose endpoint buses lie in different countries and nothing else;
\* without it the call removes exactly all lines and all DC links, and every
\* link that is not DC remains.
C4_AutarkyRemoves ==
    pc = "done" =>
        /\ OtherTablesKept
        /\ IF inp.only_crossborder
           THEN /\ RemovedLines = {k \in DOMAIN pre.lines : DifferentCountries(pre.lines[k])}
                /\ RemovedLinks = {k \in DOMAIN pre.links :
                                     /\ pre.links[k].carrier = "DC"
                                     /\ DifferentCountries(pre.links[k])}
           ELSE /\ RemovedLines = DOMAIN pre.lines
                /\ RemovedLinks = {k \in DOMAIN pre.links : pre.links[k].carrier = "DC"}

-----------------------------------------------------------------------------
(* average_every_nhours *)

RECURSIVE ISum(_, _)
\* sum of the integers f[i] over i in S
ISum(f, S) ==
    IF S = {} THEN 0
    ELSE LET i == CHOOSE i \in S : TRUE IN f[i] + ISum(f, S \ {i})

RECURSIVE RSum(_, _)
\* sum of the rationals f[i] over i in S
RSum(f, S) ==
    IF S = {} THEN R(0)
    ELSE LET i == CHOOSE i \in S : TRUE IN RAdd(f[i], RSum(f, S \ {i}))

\* the hours of a pandas offset such as "3h"
OffsetHours(offset) ==
    LET cs == CharsOf[offset] IN DigitsVal(SubSeq(cs, 1, Len(cs) - 1))

\* a variant whose bins are anchored at the first label (origin="start")
ResampleBins_FromStart(index, b) ==
    IF index = <<>> THEN <<>>
    ELSE LET cnt == ((index[Len(index)] - index[1]) \div b) + 1
         IN  [j \in 1..cnt |-> index[1] + b * (j - 1)]

\* resample(offset): the bins are b hours wide and anchored at midnight of the
\* first label's day (hour 0); every bin from the first label's to the last
\* label's is kept, also the empty ones
ResampleBins(index, b) ==
    IF index = <<>> THEN <<>>
    ELSE LET lo == index[1] \div b
             hi == index[Len(index)] \div b
         IN  [j \in 1..(hi - lo + 1) |-> b * (lo + j - 1)]

\* the positions of index that fall in the bin labelled lab
BinMembers(index, b, lab) == {i \in 1..Len(index) : index[i] \div b = lab \div b}

\* a variant that averages the weightings of a bin instead of adding them
ResampleSum_Mean(index, w, b) ==
    LET bins == ResampleBins(index, b) IN
    [j \in 1..Len(bins) |->
        LET mem == BinMembers(index, b, bins[j])
            cnt == IF mem = {} THEN 1 ELSE Cardinality(mem)
        IN  [objective |-> ISum([i \in mem |-> w[i].objective], mem) \div cnt,
             stores |-> ISum([i \in mem |-> w[i].stores], mem) \div cnt]]

\* resample(offset).sum() of the weightings
ResampleSum(index, w, b) ==
    LET bins == ResampleBins(index, b) IN
    [j \in 1..Len(bins) |->
        LET mem == BinMembers(index, b, bins[j]) IN
        [objective |-> ISum([i \in mem |-> w[i].objective], mem),
         stores |-> ISum([i \in mem |-> w[i].stores], mem)]]

\* resample(offset).mean() of one table; the mean of an empty bin is NaN
ResampleMean(index, df, b) ==
    LET bins == ResampleBins(index, b) IN
    [c \in DOMAIN df |->
        [j \in 1..Len(bins) |->
            LET mem == BinMembers(index, b, bins[j]) IN
            RDiv(RSum([i \in mem |-> df[c][i]], mem), R(Cardinality(mem)))]]

DfEmpty(index, df) == DOMAIN df = {} \/ index = <<>>

average_every_nhours(net, offset) ==
    LET b == OffsetHours(offset)
        snapshot_weightings == ResampleSum(net.snapshots, net.snapshot_weightings, b)
        bins == ResampleBins(net.snapshots, b)
    IN  [net EXCEPT
           !.snapshots = bins,
           !.snapshot_weightings = snapshot_weightings,
           !.pnl = [key \in DOMAIN @ |->
                      IF DfEmpty(net.snapshots, @[key]) THEN EmptyTable
                      ELSE ResampleMean(net.snapshots, @[key], b)]]

Offsets == <<"1h", "2h", "3h", "4h", "5h", "6h">>

\* the snapshots: strictly increasing hour labels
AVSnapshots ==
    UNION {{q \in [1..len -> 0..MaxHour] : \A i \in 1..(len - 1) : q[i] < q[i + 1]} :
             len \in 1..MaxSnap}

AVNets ==
    {[BaseNet EXCEPT
        !.snapshots = q,
        !.snapshot_weightings = [i \in 1..Len(q) |-> [objective |-> w[i], stores |-> 1]],
        !.generators = ("G1" :> Generator("solar", R(1), R(0))),
        !.pnl = [key \in PnlKeys |->
                   IF key = <<"generators", "p_max_pu">>
                   THEN ("G1" :> [i \in 1..Len(q) |-> R(q[i])])
                   ELSE EmptyTable]] :
       q \in AVSnapshots, w \in [1..MaxSnap -> 1..MaxWeight]}

InitAV ==
    /\ pc = "call"
    /\ n \in AVNets
    /\ pre = n
    /\ inp \in [offset : {Offsets[b] : b \in 1..MaxBucket}]
    /\ loc = [calls |-> <<>>, error |-> NoError]

CallAverageEveryNhours ==
    /\ pc = "call"
    /\ n' = average_every_nhours(n, inp.offset)
    /\ pc' = "done"
    /\ loc' = [loc EXCEPT !.calls = Append(@, "average_every_nhours")]
    /\ UNCHANGED <<pre, inp>>

NextAV == CallAverageEveryNhours

SpecAV == InitAV /\ [][NextAV]_vars

(* Claims about average_every_nhours *)

BucketHours == ("1h" :> 1) @@ ("2h" :> 2) @@ ("3h" :> 3) @@ ("4h" :> 4) @@
               ("5h" :> 5) @@ ("6h" :> 6)

WeightTotal(net, col) ==
    ISum([i \in 1..Len(net.snapshots) |-> net.snapshot_weightings[i][col]],
         1..Len(net.snapshots))

\* the input weight that falls into the bucket starting at label lab
WeightInBucket(col, lab) ==
    LET mem == {i \in 1..Len(pre.snapshots) :
                  lab <= pre.snapshots[i] /\ pre.snapshots[i] < lab + BucketHours[inp.offset]}
    IN  ISum([i \in mem |-> pre.snapshot_weightings[i][col]], mem)

StaticTables ==
    {"buses", "lines", "links", "generators", "storage_units", "stores", "carriers",
     "global_constraints"}

\* C5: the weightings of the returned network are the per-bucket sums of the
\* input weightings, so for each weighting column the output total equals the
\* input total, and the static tables are those of the input.
C5_WeightConserved ==
    pc = "done" =>
        /\ Len(n.snapshot_weightings) = Len(n.snapshots)
        /\ \A col \in {"objective", "stores"} :
              /\ WeightTotal(n, col) = WeightTotal(pre, col)
              /\ \A j \in 1..Len(n.snapshots) :
                    n.snapshot_weightings[j][col] = WeightInBucket(col, n.snapshots[j])
        /\ \A t \in StaticTables : n[t] = pre[t]

C5_Witness ==
    /\ pc = "done"
    /\ Len(pre.snapshots) = 4
    /\ Len(n.snapshots) = 2
    /\ n.snapshot_weightings[1].objective = 3
    /\ n.snapshot_weightings[2].objective = 4
    /\ WeightTotal(pre, "objective") = 7

CeilDiv(a, b) == (a + b - 1) \div b

Contiguous(index) == \A i \in 1..(Len(index) - 1) : index[i + 1] = index[i] + 1

\* C9 as stated: the returned network has ceil(N / b) snapshots whatever the
\* first label is and whether or not the input snapshots are contiguous.
C9_CeilAlways ==
    pc = "done" =>
        Len(n.snapshots) = CeilDiv(Len(pre.snapshots), BucketHours[inp.offset])

\* C9, amended: the returned network has one snapshot per bucket from the
\* first label's bucket to the last label's, buckets being counted from
\* midnight of the first snapshot's day; that is ceil(N / b) when the input
\* snapshots are contiguous hours and the first label lies on a bucket
\* boundary.
C9_BucketCount ==
    pc = "done" =>
        LET b == BucketHours[inp.offset]
            first == pre.snapshots[1]
            last == pre.snapshots[Len(pre.snapshots)]
        IN  /\ Len(n.snapshots) = (last \div b) - (first \div b) + 1
            /\ (Contiguous(pre.snapshots) /\ first % b = 0)
                  => Len(n.snapshots) = CeilDiv(Len(pre.snapshots), b)

C9_Witness ==
    /\ pc = "done"
    /\ inp.offset = "3h"
    /\ pre.snapshots = <<3, 4, 5>>
    /\ Len(n.snapshots) = 1

-----------------------------------------------------------------------------
(* add_emission_prices *)

\* x + "_emissions"
EmissionColumn == ("co2" :> "co2_emissions") @@ ("ch4" :> "ch4_emissions")

\* the columns of n.carriers that filter(like="_emissions") keeps
EmissionColumns(net) ==
    {"co2_emissions", "ch4_emissions"} \cap
    UNION {DOMAIN net.carriers[c] : c \in DOMAIN net.carriers}

\* ep: per carrier, the sum of price x intensity over the columns that both
\* the renamed price map and the carriers table hold (sum skips the others)
EmissionPricePerCarrier(net, emission_prices) ==
    LET cols == {EmissionColumn[x] : x \in DOMAIN emission_prices}
                  \cap EmissionColumns(net)
        kinds == {x \in DOMAIN emission_prices : EmissionColumn[x] \in cols}
    IN  [c \in DOMAIN net.carriers |->
           RSum([x \in kinds |->
                   RMul(emission_prices[x], net.carriers[c][EmissionColumn[x]])],
                kinds)]

\* carrier.map(ep): NaN for a carrier the table does not hold
MapCarrier(ep, carrier) == IF carrier \in DOMAIN ep THEN ep[carrier] ELSE NaN

\* a variant that multiplies by the efficiency instead of dividing by it
PricePerOutput_Times(ep, carrier, efficiency) == RMul(MapCarrier(ep, carrier), efficiency)

PricePerOutput(ep, carrier, efficiency) == RDiv(MapCarrier(ep, carrier), efficiency)

add_emission_prices(net, emission_prices, exclude_co2) ==
    LET prices == IF exclude_co2
                  THEN Restrict(emission_prices, DOMAIN emission_prices \ {"co2"})
                  ELSE emission_prices
        ep == EmissionPricePerCarrier(net, prices)
        gen_ep == [g \in DOMAIN net.generators |->
                     PricePerOutput(ep, net.generators[g].carrier,
                                    net.generators[g].efficiency)]
        su_ep == [u \in DOMAIN net.storage_units |->
                    PricePerOutput(ep, net.storage_units[u].carrier,
                                   net.storage_units[u].efficiency_dispatch)]
        mc == <<"generators", "marginal_cost">>
    IN  [net EXCEPT
           !.generators = [g \in DOMAIN @ |->
                             [@[g] EXCEPT !.marginal_cost = RAdd(@, gen_ep[g])]],
           !.pnl[mc] = [g \in DOMAIN @ |->
                          [i \in 1..Len(@[g]) |-> RAdd(@[g][i], gen_ep[g])]],
           !.storage_units = [u \in DOMAIN @ |->
                                [@[u] EXCEPT !.marginal_cost = RAdd(@, su_ep[u])]]]

StorageUnit(carrier, efficiency_dispatch, marginal_cost) ==
    [carrier |-> carrier, efficiency_dispatch |-> efficiency_dispatch,
     marginal_cost |-> marginal_cost, p_nom_max |-> Inf, capital_cost |-> R(1)]

Efficiencies == {R(1), Rat(1, 2), Rat(2, 5)}

EPNets ==
    {[BaseNet EXCEPT
        !.carriers = ("OCGT" :> [co2_emissions |-> Rat(c, 5), ch4_emissions |-> Rat(h, 10)])
                     @@ ("solar" :> [co2_emissions |-> R(0), ch4_emissions |-> R(0)])
                     @@ ("PHS" :> [co2_emissions |-> Rat(c, 10), ch4_emissions |-> R(0)]),
        !.generators = ("G1" :> Generator("OCGT", e, R(m))) @@
                       ("G2" :> Generator("solar", R(1), R(0))),
        !.storage_units = ("S1" :> StorageUnit("PHS", se, R(0))),
        !.pnl = [key \in PnlKeys |->
                   IF key = <<"generators", "marginal_cost">>
                   THEN [g \in cols |-> [i \in 1..4 |-> R(i)]]
                   ELSE IF key = <<"storage_units", "inflow">>
                   THEN ("S1" :> [i \in 1..4 |-> R(1)])
                   ELSE EmptyTable]] :
       c \in 1..MaxIntensity, h \in 0..1, e \in Efficiencies, m \in 0..1,
       se \in {R(1), Rat(9, 10)}, cols \in SUBSET {"G1", "G2"}}

PriceMaps ==
    {("co2" :> R(p)) : p \in 0..MaxPrice} \cup
    {("co2" :> R(p)) @@ ("ch4" :> R(q)) : p \in 0..MaxPrice, q \in 1..MaxPrice}

InitEP ==
    /\ pc = "call"
    /\ n \in EPNets
    /\ pre = n
    /\ inp \in [emission_prices : PriceMaps, exclude_co2 : BOOLEAN]
    /\ loc = [calls |-> <<>>, error |-> NoError]

CallAddEmissionPrices ==
    /\ pc = "call"
    /\ n' = add_emission_prices(n, inp.emission_prices, inp.exclude_co2)
    /\ pc' = "done"
    /\ loc' = [loc EXCEPT !.calls = Append(@, "add_emission_prices")]
    /\ UNCHANGED <<pre, inp>>

NextEP == CallAddEmissionPrices

SpecEP == InitEP /\ [][NextEP]_vars

(* Claims about add_emission_prices *)

\* (sum over the kinds of the price map of price x the carrier's intensity) / e
ExpectedIncrement(carrier, e) ==
    LET co2 == RMul(inp.emission_prices["co2"], pre.carriers[carrier].co2_emissions)
        ch4 == IF "ch4" \in DOMAIN inp.emission_prices
               THEN RMul(inp.emission_prices["ch4"], pre.carriers[carrier].ch4_emissions)
               ELSE R(0)
        total == RAdd(co2, ch4)
    IN  Rat(total[1] * e[2], total[2] * e[1])

GenMC == <<"generators", "marginal_cost">>

\* C6: add_emission_prices(price_map) raises every generator's static marginal
\* cost by (sum over the kinds of the price map of price x its carrier's
\* intensity) / efficiency, p*c/e for a single CO2 price; it adds the same
\* increment at every snapshot to the columns the time-varying marginal-cost
\* table already has and adds no column; every storage unit's static marginal
\* cost rises by the per-carrier sum over its discharge efficiency, and the
\* time-varying tables of storage units are unchanged.
C6_EmissionPrices ==
    (pc = "done" /\ ~inp.exclude_co2) =>
        /\ \A g \in DOMAIN pre.generators :
              LET row == pre.generators[g]
                  inc == ExpectedIncrement(row.carrier, row.efficiency)
              IN  /\ n.generators[g].marginal_cost = RAdd(row.marginal_cost, inc)
                  /\ DOMAIN inp.emission_prices = {"co2"} =>
                        inc = Rat(inp.emission_prices["co2"][1]
                                    * pre.carriers[row.carrier].co2_emissions[1]
                                    * row.efficiency[2],
                                  pre.carriers[row.carrier].co2_emissions[2]
                                    * row.efficiency[1])
                  /\ g \in DOMAIN pre.pnl[GenMC] =>
                        \A i \in 1..Len(pre.snapshots) :
                            n.pnl[GenMC][g][i] = RAdd(pre.pnl[GenMC][g][i], inc)
        /\ DOMAIN n.pnl[GenMC] = DOMAIN pre.pnl[GenMC]
        /\ \A u \in DOMAIN pre.storage_units :
              LET row == pre.storage_units[u] IN
              n.storage_units[u].marginal_cost =
                  RAdd(row.marginal_cost,
                       ExpectedIncrement(row.carrier, row.efficiency_dispatch))
        /\ n.pnl[<<"storage_units", "inflow">>] = pre.pnl[<<"storage_units", "inflow">>]

C6_Witness ==
    /\ pc = "done"
    /\ ~inp.exclude_co2
    /\ inp.emission_prices = ("co2" :> R(2))
    /\ pre.generators["G1"].efficiency = Rat(2, 5)
    /\ pre.carriers["OCGT"].co2_emissions = Rat(1, 5)
    /\ pre.generators["G1"].marginal_cost = R(1)
    /\ n.generators["G1"].marginal_cost = R(2)
    /\ DOMAIN pre.pnl[GenMC] = {"G1"}
    /\ n.pnl[GenMC]["G1"][1] = R(2)
    /\ n.storage_units["S1"].marginal_cost # pre.storage_units["S1"].marginal_cost

-----------------------------------------------------------------------------
(* add_dynamic_emission_prices *)

\* co2_price[~co2_price.index.duplicated()]: the rows whose label did not occur
\* in an earlier row
RECURSIVE DropDuplicated(_)
DropDuplicated(rows) ==
    IF rows = <<>> THEN <<>>
    ELSE LET head == DropDuplicated(SubSeq(rows, 1, Len(rows) - 1))
             last == rows[Len(rows)]
         IN  IF \E i \in 1..(Len(rows) - 1) : rows[i].label = last.label
             THEN head ELSE Append(head, last)

\* reindex(index): the value of the row labelled as the snapshot, else NaN
Reindex(rows, index) ==
    [i \in 1..Len(index) |->
        IF \E r \in 1..Len(rows) : rows[r].label = index[i]
        THEN rows[CHOOSE r \in 1..Len(rows) : rows[r].label = index[i]].value
        ELSE NaN]

\* fillna(method="ffill"): a NaN takes the last value before it that is not NaN
FillForward(col) ==
    [i \in 1..Len(col) |->
        LET known == {j \in 1..i : ~IsNaN(col[j])} IN
        IF known = {} THEN NaN
        ELSE col[CHOOSE j \in known : \A k \in known : k <= j]]

\* fillna(method="bfill"): a NaN takes the first value after it that is not NaN
FillBackward(col) ==
    [i \in 1..Len(col) |->
        LET known == {j \in i..Len(col) : ~IsNaN(col[j])} IN
        IF known = {} THEN NaN
        ELSE col[CHOOSE j \in known : \A k \in known : j <= k]]

ResolveCo2Price(rows, index) ==
    FillBackward(FillForward(Reindex(DropDuplicated(rows), index)))

\* n.get_switchable_as_dense("Generator", "marginal_cost")
DenseMarginalCost(net) ==
    [g \in DOMAIN net.generators |->
        IF g \in DOMAIN net.pnl[<<"generators", "marginal_cost">>]
        THEN net.pnl[<<"generators", "marginal_cost">>][g]
        ELSE [i \in 1..Len(net.snapshots) |-> net.generators[g].marginal_cost]]

\* x != y of pandas: NaN differs from everything
Ne(x, y) == IsNaN(x) \/ IsNaN(y) \/ x # y

add_dynamic_emission_prices(net, csv) ==
    LET co2_price == ResolveCo2Price(csv, net.snapshots)
        emissions == [g \in DOMAIN net.generators |->
                        RDiv(IF net.generators[g].carrier \in DOMAIN net.carriers
                             THEN net.carriers[net.generators[g].carrier].co2_emissions
                             ELSE NaN,
                             net.generators[g].efficiency)]
        dynamic == DenseMarginalCost(net)
        marginal_cost ==
            [g \in DOMAIN dynamic |->
                [i \in 1..Len(net.snapshots) |->
                    RAdd(dynamic[g][i], RMul(emissions[g], co2_price[i]))]]
        keep == {g \in DOMAIN marginal_cost :
                    \E i \in 1..Len(net.snapshots) :
                        Ne(marginal_cost[g][i], net.generators[g].marginal_cost)}
    IN  [net EXCEPT !.pnl[<<"generators", "marginal_cost">>] =
                        Restrict(marginal_cost, keep)]

PriceRows == [label : 0..MaxHour, value : {R(p) : p \in 1..MaxPrice}]

PriceSeries == UNION {[1..len -> PriceRows] : len \in 0..MaxSeries}

DPNets ==
    {[BaseNet EXCEPT
        !.snapshots = q,
        !.snapshot_weightings = [i \in 1..Len(q) |-> [objective |-> 1, stores |-> 1]],
        !.carriers = ("OCGT" :> [co2_emissions |-> Rat(1, 5)]) @@
                     ("solar" :> [co2_emissions |-> R(0)]),
        !.generators = ("G1" :> Generator("OCGT", Rat(2, 5), R(1))) @@
                       ("G2" :> Generator("solar", R(1), R(0))),
        !.pnl = [key \in PnlKeys |->
                   IF key = <<"generators", "marginal_cost">>
                   THEN [g \in cols |-> [i \in 1..Len(q) |-> R(i)]]
                   ELSE EmptyTable]] :
       q \in {<<0, 1, 2, 3>>, <<2, 4>>, <<1, 3, 5>>}, cols \in {{}, {"G1"}}}

InitDP ==
    /\ pc = "call"
    /\ n \in DPNets
    /\ pre = n
    /\ inp \in [co2_price : PriceSeries]
    /\ loc = [calls |-> <<>>, error |-> NoError]

CallAddDynamicEmissionPrices ==
    /\ pc = "call"
    /\ n' = add_dynamic_emission_prices(n, inp.co2_price)
    /\ pc' = "done"
    /\ loc' = [loc EXCEPT !.calls = Append(@, "add_dynamic_emission_prices")]
    /\ UNCHANGED <<pre, inp>>

NextDP == CallAddDynamicEmissionPrices

SpecDP == InitDP /\ [][NextDP]_vars

(* Claims about add_dynamic_emission_prices *)

\* the first row of the series with the given label
FirstAt(label) ==
    inp.co2_price[CHOOSE r \in 1..Len(inp.co2_price) :
                     /\ inp.co2_price[r].label = label
                     /\ \A q \in 1..(r - 1) : inp.co2_price[q].label # label].value

SeriesLabels == {inp.co2_price[r].label : r \in 1..Len(inp.co2_price)}

\* the price of a snapshot as C8 states it: the entry at its label, else the
\* nearest earlier entry of the series, else the nearest later one
StatedPrice(t) ==
    LET earlier == {l \in SeriesLabels : l <= t}
        later == {l \in SeriesLabels : l > t}
    IN  IF earlier # {} THEN FirstAt(CHOOSE l \in earlier : \A m \in earlier : m <= l)
        ELSE IF later # {} THEN FirstAt(CHOOSE l \in later : \A m \in later : l <= m)
        ELSE NaN

\* the CO2 cost per unit of output of generator g
EmissionRate(g) ==
    LET row == pre.generators[g]
        c == pre.carriers[row.carrier].co2_emissions
    IN  Rat(c[1] * row.efficiency[2], c[2] * row.efficiency[1])

\* C8: every snapshot gets the price of the first entry at its label, else of
\* the nearest earlier entry of the series, else of the nearest later entry, so
\* with a non-empty series every snapshot has a defined price; seen through the
\* marginal cost the call leaves for each generator and snapshot.
C8_PriceResolved ==
    (pc = "done" /\ inp.co2_price # <<>>) =>
        \A g \in DOMAIN pre.generators : \A i \in 1..Len(pre.snapshots) :
            /\ ~IsNaN(DenseMarginalCost(n)[g][i])
            /\ DenseMarginalCost(n)[g][i] =
                 RAdd(DenseMarginalCost(pre)[g][i],
                      RMul(EmissionRate(g), StatedPrice(pre.snapshots[i])))

-----------------------------------------------------------------------------
(* apply_time_segmentation *)

\* the value set_snapshots fills in where a table has no row for a new label
PnlDefault(key) == IF key[2] = "p_max_pu" THEN R(1) ELSE R(0)

\* n.set_snapshots(index): the time-varying tables are reindexed to the new labels
set_snapshots(net, index) ==
    [net EXCEPT
       !.snapshots = index,
       !.snapshot_weightings =
           [i \in 1..Len(index) |->
               IF \E j \in 1..Len(net.snapshots) : net.snapshots[j] = index[i]
               THEN net.snapshot_weightings[
                        CHOOSE j \in 1..Len(net.snapshots) : net.snapshots[j] = index[i]]
               ELSE [objective |-> 1, stores |-> 1]],
       !.pnl = [key \in DOMAIN @ |->
                  [c \in DOMAIN @[key] |->
                      [i \in 1..Len(index) |->
                          IF \E j \in 1..Len(net.snapshots) : net.snapshots[j] = index[i]
                          THEN @[key][c][CHOOSE j \in 1..Len(net.snapshots) :
                                            net.snapshots[j] = index[i]]
                          ELSE PnlDefault(key)]]]]

\* df.max(): the largest value of each column
RECURSIVE RMaxOf(_, _)
RMaxOf(col, i) ==
    IF i = 0 THEN NaN
    ELSE LET m == RMaxOf(col, i - 1) IN
         IF IsNaN(m) \/ RLess(m, col[i]) THEN col[i] ELSE m

ColumnMax(df) == [c \in DOMAIN df |-> RMaxOf(df[c], Len(df[c]))]

\* whether int() accepts the text
IsInt(cs) == cs # <<>> /\ AllDigits(cs)

\* np.insert(np.cumsum(weightings[:-1]), 0, 0)
SegmentOffsets(weightings) ==
    [i \in 1..Len(weightings) |-> ISum(weightings, 1..(i - 1))]

\* n.snapshots[0] + pd.Timedelta(f"{offset}h")
SegmentLabel(first, offset) == first + offset

SegmentedTables == {<<"generators", "p_max_pu">>, <<"loads", "p_set">>,
                    <<"storage_units", "inflow">>}

\* the outcome of apply_time_segmentation: the network, or the error raised.
\* tsam_installed tells whether the import succeeds; segmented is what
\* createTypicalPeriods returns for the normalised series: the durations of
\* the segments and one normalised value per column and segment.
apply_time_segmentation(net, segments, tsam_installed, segmented) ==
    IF ~tsam_installed THEN [error |-> Raised("ModuleNotFoundError", "tsam"), net |-> net]
    ELSE IF ~IsInt(CharsOf[segments]) THEN [error |-> Raised("ValueError", segments), net |-> net]
    ELSE IF DigitsVal(CharsOf[segments]) > Len(net.snapshots)
              \/ DigitsVal(CharsOf[segments]) = 0
    THEN [error |-> Raised("tsam", segments), net |-> net]
    ELSE
    LET norm == [key \in SegmentedTables |-> ColumnMax(net.pnl[key])]
        weightings == segmented.durations
        offsets == SegmentOffsets(weightings)
        snapshots == [i \in 1..Len(offsets) |-> SegmentLabel(net.snapshots[1], offsets[i])]
        n1 == set_snapshots(net, snapshots)
        n2 == [n1 EXCEPT
                 !.snapshot_weightings =
                     [i \in 1..Len(snapshots) |->
                         [objective |-> weightings[i], stores |-> weightings[i]]],
                 !.pnl = [key \in DOMAIN @ |->
                            IF key \in SegmentedTables
                            THEN [c \in DOMAIN net.pnl[key] |->
                                    [i \in 1..Len(snapshots) |->
                                        RMul(segmented.values[key][c][i], norm[key][c])]]
                            ELSE @[key]]]
    IN  [error |-> NoError, net |-> n2]

\* the sequences of len positive durations that add up to total
Compositions(total, len) ==
    {d \in [1..len -> 1..total] : ISum(d, 1..len) = total}

NormalisedValues == {Rat(1, 2), R(1)}

\* what the aggregation may return for a network and a segment count
SegmentedResults(net, segments) ==
    LET cs == CharsOf[segments]
        k == IF IsInt(cs) THEN DigitsVal(cs) ELSE 0
    IN  IF k = 0 \/ k > Len(net.snapshots)
        THEN {[durations |-> <<>>, values |-> EmptyTable]}
        ELSE {[durations |-> d, values |-> v] :
                d \in Compositions(Len(net.snapshots), k),
                v \in {[key \in SegmentedTables |->
                          [c \in DOMAIN net.pnl[key] |-> [i \in 1..k |-> w[key][i]]]] :
                          w \in [{key \in SegmentedTables : DOMAIN net.pnl[key] # {}}
                                   -> [1..k -> NormalisedValues]]}}

SegmentArgs == <<"1", "2", "3", "4", "5">>

\* networks whose snapshots are step hours apart
SGNets ==
    {[BaseNet EXCEPT
        !.snapshots = [i \in 1..len |-> first + step * (i - 1)],
        !.snapshot_weightings = [i \in 1..len |-> [objective |-> step, stores |-> step]],
        !.generators = ("G1" :> Generator("solar", R(1), R(0))),
        !.pnl = [key \in PnlKeys |->
                   IF key = <<"generators", "p_max_pu">>
                   THEN ("G1" :> [i \in 1..len |-> Rat(i, len)])
                   ELSE IF key = <<"generators", "marginal_cost">>
                   THEN ("G1" :> [i \in 1..len |-> R(i)])
                   ELSE EmptyTable]] :
       len \in 2..MaxSnap, first \in 0..1, step \in 1..MaxStep}

InitSG ==
    /\ pc = "call"
    /\ n \in SGNets
    /\ pre = n
    /\ \E sg \in {SegmentArgs[i] : i \in 1..MaxSeg} \cup {"2seg"}, ti \in BOOLEAN :
          \E res \in SegmentedResults(n, sg) :
             inp = [segments |-> sg, tsam_installed |-> ti, segmented |-> res]
    /\ loc = [calls |-> <<>>, error |-> NoError]

CallApplyTimeSegmentation ==
    /\ pc = "call"
    /\ LET out == apply_time_segmentation(n, inp.segments, inp.tsam_installed,
                                          inp.segmented)
       IN  /\ n' = out.net
           /\ pc' = IF out.error = NoError THEN "done" ELSE "error"
           /\ loc' = IF out.error = NoError
                     THEN [loc EXCEPT !.calls = Append(@, "apply_time_segmentation")]
                     ELSE [loc EXCEPT !.error = out.error]
    /\ UNCHANGED <<pre, inp>>

NextSG == CallApplyTimeSegmentation

SpecSG == InitSG /\ [][NextSG]_vars

(* Claims about apply_time_segmentation *)

\* the distance between two original snapshots
SnapshotStep == pre.snapshots[2] - pre.snapshots[1]

\* C10: for the durations d_1..d_k the aggregation returns, the network has k
\* snapshots; snapshot i is labelled with the first original snapshot plus
\* d_1 + ... + d_(i-1) original-snapshot time units, so the labels start at the
\* first original snapshot and increase strictly; the weighting of snapshot i
\* is d_i, and the weightings add up to the number of original snapshots.
C10_Segments ==
    pc = "done" =>
        LET d == inp.segmented.durations
            k == Len(d)
        IN  /\ Len(n.snapshots) = k
            /\ n.snapshots[1] = pre.snapshots[1]
            /\ \A i \in 1..k :
                  /\ n.snapshots[i] = pre.snapshots[1] + ISum(d, 1..(i - 1)) * SnapshotStep
                  /\ n.snapshot_weightings[i].objective = d[i]
                  /\ n.snapshot_weightings[i].stores = d[i]
            /\ \A i \in 1..(k - 1) : n.snapshots[i] < n.snapshots[i + 1]
            /\ ISum([i \in 1..k |-> n.snapshot_weightings[i].objective], 1..k)
                  = Len(pre.snapshots)

-----------------------------------------------------------------------------
(* The remaining transforms *)

GlobalConstraint(name, type, carrier_attribute, constant) ==
    [name |-> name, type |-> type, sense |-> "<=", constant |-> constant,
     carrier_attribute |-> carrier_attribute]

add_co2limit(net, co2limit, Nyears) ==
    [net EXCEPT !.global_constraints =
        @ \cup {GlobalConstraint("CO2Limit", "primary_energy", "co2_emissions",
                                 <<RMul(co2limit, Nyears), R(0)>>)}]

add_gaslimit(net, gaslimit, Nyears) ==
    LET sel == DOMAIN net.carriers \cap {"OCGT", "CCGT", "CHP"} IN
    [net EXCEPT
       !.carriers = [c \in DOMAIN @ |->
                       ("gas_usage" :> IF c \in sel THEN R(1) ELSE NaN) @@ @[c]],
       !.global_constraints =
           @ \cup {GlobalConstraint("GasLimit", "primary_energy", "gas_usage",
                                    <<RMul(gaslimit, Nyears), R(0)>>)}]

set_line_s_max_pu(net, s_max_pu) ==
    [net EXCEPT !.lines = [k \in DOMAIN @ |-> [@[k] EXCEPT !.s_max_pu = s_max_pu]]]

set_line_nom_max(net, s_nom_max_set, p_nom_max_set, s_nom_max_ext, p_nom_max_ext) ==
    LET n1 == IF IsFinite(s_nom_max_ext) /\ RLess(R(0), s_nom_max_ext)
              THEN [net EXCEPT !.lines = [k \in DOMAIN @ |->
                       [@[k] EXCEPT !.s_nom_max = RAdd(R(net.lines[k].s_nom), s_nom_max_ext)]]]
              ELSE net
        n2 == IF IsFinite(p_nom_max_ext) /\ RLess(R(0), p_nom_max_ext)
              THEN [n1 EXCEPT !.links = [k \in DOMAIN @ |->
                       IF @[k].carrier = "DC"
                       THEN [@[k] EXCEPT !.p_nom_max = RAdd(R(n1.links[k].p_nom), p_nom_max_ext)]
                       ELSE @[k]]]
              ELSE n1
    IN  [n2 EXCEPT
           !.lines = [k \in DOMAIN @ |->
                        [@[k] EXCEPT !.s_nom_max = RMin(@, s_nom_max_set)]],
           !.links = [k \in DOMAIN @ |->
                        [@[k] EXCEPT !.p_nom_max = RMin(@, p_nom_max_set)]]]

\* find_opt(opts, expr): whether an option holds expr, and the float that
\* option ends with, if it ends with one
find_opt(opts, expr) ==
    LET hits == {i \in 1..Len(opts) : Contains(CharsOf[expr], CharsOf[opts[i]])} IN
    IF hits = {} THEN [found |-> FALSE, has_value |-> FALSE, value |-> NaN]
    ELSE LET cs == CharsOf[opts[CHOOSE i \in hits : \A j \in hits : i <= j]]
             st == TrailingNumberStart(cs)
         IN  IF st = 0 THEN [found |-> TRUE, has_value |-> FALSE, value |-> NaN]
             ELSE [found |-> TRUE, has_value |-> TRUE,
                   value |-> ToFloat(SubSeq(cs, st, Len(cs)))]

\* get_opt(opts, "^\d+<suffix>$"): the first option that matches, "" for None
get_opt(opts, suffix) ==
    LET hits == {i \in 1..Len(opts) : MatchesDigitsThen(CharsOf[opts[i]], CharsOf[suffix])}
    IN  IF hits = {} THEN "" ELSE opts[CHOOSE i \in hits : \A j \in hits : i <= j]

\* x or y on strings, "" standing for None and False
Or(x, y) == IF x # "" THEN x ELSE y

-----------------------------------------------------------------------------
(* The scaling loop of __main__ *)

attr_lookup == ("p" :> "p_nom_max") @@ ("c" :> "capital_cost") @@ ("m" :> "marginal_cost")

\* a lookup that falls back to p_nom_max for a code it does not hold
LookupAttr_Default(code) ==
    [error |-> NoError,
     attr |-> IF code \in DOMAIN attr_lookup THEN attr_lookup[code] ELSE "p_nom_max"]

\* attr_lookup[code]: the attribute, or the KeyError
LookupAttr(code) ==
    IF code \in DOMAIN attr_lookup
    THEN [error |-> NoError, attr |-> attr_lookup[code]]
    ELSE [error |-> Raised("KeyError", code), attr |-> ""]

\* map(lambda c: c.split("-", 2)[0], n.carriers.index)
suptechs(net) == {SplitHead(CharsOf[c], "-") : c \in DOMAIN net.carriers}

\* df.loc[sel, attr] *= factor, sel being the rows whose carrier contains the text
ScaleRows(df, carrier, attr, factor) ==
    [k \in DOMAIN df |->
        IF Contains(carrier, CharsOf[df[k].carrier])
        THEN [df[k] EXCEPT ![attr] = RMul(@, factor)]
        ELSE df[k]]

\* one pass of the loop body for option o; stores are empty in the networks
\* modelled, so iterate_components skips them
ScaleByOption(net, o) ==
    LET cs == CharsOf[o] IN
    IF ~Contains(<<"+">>, cs) THEN [error |-> NoError, net |-> net]
    ELSE
    LET carrier == SplitHead(cs, "+")
        spec == SplitSecond(cs, "+")
    IN
    IF ~\E t \in suptechs(net) : StartsWith(carrier, t)
    THEN [error |-> NoError, net |-> net]
    ELSE IF spec = <<>> THEN [error |-> Raised("IndexError", o), net |-> net]
    ELSE IF LookupAttr(spec[1]).error # NoError
    THEN [error |-> LookupAttr(spec[1]).error, net |-> net]
    ELSE IF ~IsFloat(Tail(spec)) THEN [error |-> Raised("ValueError", o), net |-> net]
    ELSE
    LET attr == LookupAttr(spec[1]).attr
        factor == ToFloat(Tail(spec))
    IN
    IF carrier = CharsOf["AC"]
    THEN IF \E k \in DOMAIN net.lines : attr \notin DOMAIN net.lines[k]
         THEN [error |-> Raised("KeyError", attr), net |-> net]
         ELSE [error |-> NoError,
               net |-> [net EXCEPT !.lines = [k \in DOMAIN @ |->
                           [@[k] EXCEPT ![attr] = RMul(@, factor)]]]]
    ELSE [error |-> NoError,
          net |-> [net EXCEPT
                     !.generators = ScaleRows(@, carrier, attr, factor),
                     !.links = ScaleRows(@, carrier, attr, factor),
                     !.storage_units = ScaleRows(@, carrier, attr, factor)]]

-----------------------------------------------------------------------------
(* __main__ *)

MainNet ==
    [BaseNet EXCEPT
       !.lines = ("L1" :> Line("DE1", "DE2", "", 2, 1, 1, 1)) @@
                 ("L2" :> Line("DE2", "PL1", "T", 1, 2, 2, 2)),
       !.links = ("K1" :> Link("DE1", "PL1", "DC", 1, 3, 1)) @@
                 ("K2" :> Link("DE1", "DE2", "battery charger", 2, 1, 1)),
       !.carriers = [c \in {"OCGT", "solar", "offwind-ac", "AC", "DC", "PHS",
                            "battery charger"} |->
                       [co2_emissions |-> IF c = "OCGT" THEN Rat(1, 5) ELSE R(0)]],
       !.generators = ("G1" :> Generator("OCGT", Rat(2, 5), R(1))) @@
                      ("G2" :> [Generator("solar", R(1), R(0)) EXCEPT !.p_nom_max = R(2)]) @@
                      ("G3" :> Generator("offwind-ac", R(1), R(0))),
       !.storage_units = ("S1" :> StorageUnit("PHS", Rat(9, 10), R(0))),
       !.pnl = [key \in PnlKeys |->
                  IF key = <<"generators", "marginal_cost">>
                  THEN ("G2" :> [i \in 1..4 |-> R(i)])
                  ELSE EmptyTable]]

\* snakemake.params and what the run reads from its inputs and its environment
ParamsOff ==
    [s_max_pu |-> Rat(7, 10), resolution |-> "", segmentation |-> "",
     co2limit_enable |-> FALSE, co2base |-> R(100), co2limit |-> R(50),
     gaslimit_enable |-> FALSE, gaslimit |-> R(10),
     emission_enable |-> FALSE, co2_monthly_prices |-> FALSE, emission_co2 |-> R(0),
     lines_s_nom_max |-> Inf, links_p_nom_max |-> Inf,
     lines_max_extension |-> Inf, links_max_extension |-> Inf,
     autarky_enable |-> FALSE, autarky_by_country |-> FALSE,
     tsam_installed |-> TRUE, costs |-> BaseCosts,
     co2_price |-> <<[label |-> 0, value |-> R(2)], [label |-> 2, value |-> R(3)]>>]

ParamsOn ==
    [ParamsOff EXCEPT
       !.co2limit_enable = TRUE, !.gaslimit_enable = TRUE, !.emission_enable = TRUE,
       !.emission_co2 = R(4), !.lines_s_nom_max = R(3), !.links_p_nom_max = R(3),
       !.lines_max_extension = R(2), !.links_max_extension = R(1),
       !.autarky_enable = TRUE, !.autarky_by_country = TRUE]

ParamsDynamic ==
    [ParamsOff EXCEPT
       !.co2_monthly_prices = TRUE, !.emission_enable = TRUE, !.autarky_enable = TRUE,
       !.tsam_installed = FALSE]

MainParams ==
    {[prm EXCEPT !.resolution = r, !.segmentation = g] :
        prm \in {ParamsOff, ParamsOn, ParamsDynamic}, r \in {"", "2h"}, g \in {"", "2"}}

OptionTokens ==
    {"2h", "2seg", "Co2L0.5", "CH4L", "Ep5", "ATK",
     "solar+p3", "AC+c2", "OCGT+x2", "wind+x3"}

\* snakemake.wildcards.opts.split("-")
MainOpts == UNION {[1..len -> OptionTokens] : len \in 0..MaxOpts}

InitMain ==
    /\ pc = "set_line_s_max_pu"
    /\ n = MainNet
    /\ pre = n
    /\ inp \in [opts : MainOpts, ll : {"copt", "v1.5"}, params : MainParams]
    /\ loc = [calls |-> <<>>, error |-> NoError, oi |-> 1,
              Nyears |-> Rat(ISum([i \in 1..Len(n.snapshots) |->
                                     n.snapshot_weightings[i].objective],
                                  1..Len(n.snapshots)), 8760)]

\* the step returned: the network it left, the call it made, the next step
Returned(net, call, next) ==
    /\ n' = net
    /\ pre' = n
    /\ pc' = next
    /\ loc' = IF call = "" THEN loc ELSE [loc EXCEPT !.calls = Append(@, call)]
    /\ UNCHANGED inp

\* the step raised: the run ends
Failed(net, error) ==
    /\ n' = net
    /\ pre' = n
    /\ pc' = "error"
    /\ loc' = [loc EXCEPT !.error = error]
    /\ UNCHANGED inp

StepLineMargin ==
    /\ pc = "set_line_s_max_pu"
    /\ Returned(set_line_s_max_pu(n, inp.params.s_max_pu), "set_line_s_max_pu",
                "averaging")

StepAveraging ==
    /\ pc = "averaging"
    /\ LET nhours == Or(get_opt(inp.opts, "h"), inp.params.resolution) IN
       IF nhours # ""
       THEN Returned(average_every_nhours(n, nhours), "average_every_nhours",
                     "segmentation")
       ELSE Returned(n, "", "segmentation")

StepSegmentation ==
    /\ pc = "segmentation"
    /\ LET time_seg == Or(get_opt(inp.opts, "seg"), inp.params.segmentation) IN
       IF time_seg # ""
       THEN \E res \in SegmentedResults(n, time_seg) :
               LET out == apply_time_segmentation(n, time_seg,
                                                  inp.params.tsam_installed, res)
               IN  IF out.error = NoError
                   THEN Returned(out.net, "apply_time_segmentation", "co2limit")
                   ELSE Failed(out.net, out.error)
       ELSE Returned(n, "", "co2limit")

StepCo2Limit ==
    /\ pc = "co2limit"
    /\ LET w == find_opt(inp.opts, "Co2L") IN
       IF w.found \/ inp.params.co2limit_enable
       THEN Returned(add_co2limit(n, IF w.has_value
                                     THEN RMul(w.value, inp.params.co2base)
                                     ELSE inp.params.co2limit,
                                  loc.Nyears),
                     "add_co2limit", "gaslimit")
       ELSE Returned(n, "", "gaslimit")

Million == 1000000

StepGasLimit ==
    /\ pc = "gaslimit"
    /\ LET w == find_opt(inp.opts, "CH4L") IN
       IF w.found \/ inp.params.gaslimit_enable
       THEN Returned(add_gaslimit(n, IF w.has_value THEN RMul(w.value, R(Million))
                                     ELSE inp.params.gaslimit,
                                  loc.Nyears),
                     "add_gaslimit", "scaling")
       ELSE Returned(n, "", "scaling")

StepScaling ==
    /\ pc = "scaling"
    /\ IF loc.oi > Len(inp.opts)
       THEN Returned(n, "", "emission_prices")
       ELSE LET out == ScaleByOption(n, inp.opts[loc.oi]) IN
            IF out.error = NoError
            THEN /\ n' = out.net
                 /\ pre' = n
                 /\ loc' = [loc EXCEPT !.oi = @ + 1]
                 /\ UNCHANGED <<pc, inp>>
            ELSE Failed(out.net, out.error)

StepEmissionPrices ==
    /\ pc = "emission_prices"
    /\ LET Ept_wildcard == \E i \in 1..Len(inp.opts) : inp.opts[i] = "Ept"
           w == find_opt(inp.opts, "Ep")
       IN  IF Ept_wildcard \/ inp.params.co2_monthly_prices
           THEN Returned(add_dynamic_emission_prices(n, inp.params.co2_price),
                         "add_dynamic_emission_prices", "transmission_limit")
           ELSE IF w.found \/ inp.params.emission_enable
           THEN Returned(add_emission_prices(n,
                             "co2" :> IF w.has_value THEN w.value
                                      ELSE inp.params.emission_co2,
                             FALSE),
                         "add_emission_prices", "transmission_limit")
           ELSE Returned(n, "", "transmission_limit")

StepTransmissionLimit ==
    /\ pc = "transmission_limit"
    /\ LET ll == CharsOf[inp.ll] IN
       Returned(set_transmission_limit(n, ll[1], StringOf(Tail(ll)), inp.params.costs),
                "set_transmission_limit", "line_nom_max")

StepLineNomMax ==
    /\ pc = "line_nom_max"
    /\ Returned(set_line_nom_max(n, inp.params.lines_s_nom_max,
                                 inp.params.links_p_nom_max,
                                 inp.params.lines_max_extension,
                                 inp.params.links_max_extension),
                "set_line_nom_max", "autarky")

StepAutarky ==
    /\ pc = "autarky"
    /\ LET has(o) == \E i \in 1..Len(inp.opts) : inp.opts[i] = o IN
       IF has("ATK") \/ inp.params.autarky_enable
       THEN Returned(enforce_autarky(n, has("ATKc") \/ inp.params.autarky_by_country),
                     "enforce_autarky", "export")
       ELSE Returned(n, "", "export")

StepExport ==
    /\ pc = "export"
    /\ Returned(n, "export_to_netcdf", "done")

Next ==
    \/ StepLineMargin
    \/ StepAveraging
    \/ StepSegmentation
    \/ StepCo2Limit
    \/ StepGasLimit
    \/ StepScaling
    \/ StepEmissionPrices
    \/ StepTransmissionLimit
    \/ StepLineNomMax
    \/ StepAutarky
    \/ StepExport

Spec == InitMain /\ [][Next]_vars

-----------------------------------------------------------------------------
(* Claims about __main__ *)

\* the calls the run has made so far
Applied(call) == \E i \in 1..Len(loc.calls) : loc.calls[i] = call

\* C1: no run applies both temporal reductions: average_every_nhours and
\* apply_time_segmentation are never both among the calls of one run.
C1_AtMostOneReduction ==
    ~(Applied("average_every_nhours") /\ Applied("apply_time_segmentation"))

\* o has the form <carrier>+<code><factor> with a code other than p, c, m
UnknownCode(o) ==
    LET cs == CharsOf[o] IN
    /\ Contains(<<"+">>, cs)
    /\ SplitSecond(cs, "+") # <<>>
    /\ SplitSecond(cs, "+")[1] \notin {"p", "c", "m"}
    /\ IsFloat(Tail(SplitSecond(cs, "+")))

\* the carrier part of o starts with the text before the first "-" of a
\* carrier of the network
KnownCarrier(net, o) ==
    \E c \in DOMAIN net.carriers :
        StartsWith(SplitHead(CharsOf[o], "+"), SplitHead(CharsOf[c], "-"))

\* the scaling loop is about to read an option with an unknown code
AtUnknownCode ==
    /\ pc = "scaling"
    /\ loc.oi <= Len(inp.opts)
    /\ UnknownCode(inp.opts[loc.oi])

\* C7 as stated: every option <carrier>+<code><factor> with a code other than
\* p, c, m ends the run with an error that names the option, before the option
\* changes the network, and no later step runs.
C7_AnyBadToken ==
    [][/\ pc = "error" => FALSE
       /\ AtUnknownCode =>
             /\ pc' = "error"
             /\ loc'.error.arg = inp.opts[loc.oi]
             /\ n' = n
             /\ loc'.calls = loc.calls]_vars

\* C7 as the code has it: an option <carrier>+<code><factor> with a code other
\* than p, c, m, whose carrier part starts with the prefix of a carrier of the
\* network, ends the run with a KeyError that names the code; the option leaves
\* the network as it was, no later step is called, and the run takes no step
\* after the error.
C7_KnownCarrier ==
    [][/\ pc = "error" => FALSE
       /\ (AtUnknownCode /\ KnownCarrier(n, inp.opts[loc.oi])) =>
             /\ pc' = "error"
             /\ loc'.error = Raised("KeyError", SplitSecond(CharsOf[inp.opts[loc.oi]], "+")[1])
             /\ n' = n
             /\ loc'.calls = loc.calls]_vars

\* the run ended on the unknown code of its second option, after its first
\* option scaled the generators
C7_Witness ==
    /\ pc = "error"
    /\ loc.error = Raised("KeyError", "x")
    /\ loc.oi = 2
    /\ UnknownCode(inp.opts[2]) /\ KnownCarrier(n, inp.opts[2])
    /\ n = pre
    /\ n.generators # MainNet.generators
    /\ ~Applied("set_transmission_limit")

=============================================================================
